---------------------------- MODULE Spec2Model ----------------------------
(***************************************************************************)
(* A model of app.py of the Agri-Policy Classifier: the Document Segmenter *)
(* (extract_paragraphs_from_pdf), the Classification Pipeline              *)
(* (classify_paragraphs), and the run block and display block that call    *)
(* them once per script run.                                               *)
(*                                                                         *)
(* A text is a sequence of characters, each character a one-character      *)
(* string.  Three characters are written by their code points: "U+00E9" is *)
(* e-acute, a letter outside string.printable; "U+0022" is the double      *)
(* quote and "U+0060" the backquote.  The regular expressions of the       *)
(* source are computed character by character on these sequences.          *)
(***************************************************************************)
EXTENDS Naturals, Sequences, FiniteSets

VARIABLES
    doc,          \* the page texts of the opened PDF (fitz document)
    name,         \* file.name
    page_num,     \* the 1-based position of the page loop
    found_start,  \* the sticky start flag
    paragraphs,   \* the records appended so far
    earlier,      \* what the earlier calls of the Segmenter on this
                  \* document returned
    df,           \* the data frame of classify_paragraphs, row by row
    idx,          \* the 1-based position of the row loop
    res,          \* the reply under parsing
    calls,        \* the service calls made so far, each with its row,
                  \* how it ended and the reply string it left in res
    err,          \* the text of the exception caught at line 140
    events,       \* what classify_paragraphs did so far, in order: each
                  \* request, answer, write of a field and sleep, with
                  \* its row
    uploaded_files,  \* the files of the uploader in this script run
    file_no,      \* the 1-based position of the file loop
    all_results,  \* the list of line 157, as the latest run left it
    session_state,   \* st.session_state: the stored frame under the key
                  \* combined_df, or no key
    offered,      \* the frames behind the download button of the combined
                  \* results in this script run: one or none
    run_no,       \* the script runs started so far
    pc            \* where the running function stands

segvars == <<doc, name, page_num, found_start, paragraphs, earlier>>

clsvars == <<df, idx, res, calls, err, events>>

runvars == <<uploaded_files, file_no, all_results, session_state, offered,
             run_no>>

vars == <<segvars, clsvars, runvars, pc>>

---------------------------------------------------------------------------
(* Characters *)

Digits == {"0","1","2","3","4","5","6","7","8","9"}

UpperLetters == <<"A","B","C","D","E","F","G","H","I","J","K","L","M",
                  "N","O","P","Q","R","S","T","U","V","W","X","Y","Z">>

LowerLetters == <<"a","b","c","d","e","f","g","h","i","j","k","l","m",
                  "n","o","p","q","r","s","t","u","v","w","x","y","z">>

Punctuation == {"!","U+0022","#","$","%","&","'","(",")","*","+",",","-",".",
                "/",":",";","<","=",">","?","@","[","\\","]","^","_","U+0060",
                "{","|","}","~"}

Whitespace == {" ", "\t", "\n", "\r", "\f"}

Range(f) == {f[i] : i \in DOMAIN f}

UpperSet == Range(UpperLetters)

LowerSet == Range(LowerLetters)

IsDigit(c) == c \in Digits

IsUpper(c) == c \in UpperSet

IsLower(c) == c \in LowerSet

IsSpace(c) == c \in Whitespace

\* the characters \w of a str pattern matches: letters (of any script),
\* digits and the underscore
WordChars == UpperSet \cup LowerSet \cup Digits \cup {"_", "U+00E9"}

IsWordChar(c) == c \in WordChars

\* string.printable
Printable == Digits \cup UpperSet \cup LowerSet \cup Punctuation \cup Whitespace

\* c in string.printable
IsPrintable(c) == c \in Printable

\* the lower-case letter of each upper-case letter
LowerOf == [c \in UpperSet |-> LowerLetters[CHOOSE i \in 1..26 : UpperLetters[i] = c]]

\* case folding of re.IGNORECASE on the letters of the alphabet
Lower(c) == IF c \in UpperSet THEN LowerOf[c] ELSE c

---------------------------------------------------------------------------
(* Strings *)

\* the literal lit stands in s at position i (ci: ignoring case)
MatchAt(s, i, lit, ci) ==
    /\ i >= 1
    /\ i + Len(lit) - 1 <= Len(s)
    /\ \A k \in 1..Len(lit) :
          IF ci THEN Lower(s[i + k - 1]) = Lower(lit[k])
                ELSE s[i + k - 1] = lit[k]

\* lit in s
Contains(s, lit) == \E i \in 1..Len(s) : MatchAt(s, i, lit, FALSE)

\* the first position at or after i that holds no whitespace (Len(s) + 1
\* when there is none): where a greedy \s* started at i ends
SkipSpace(s, i) ==
    IF \E j \in i..Len(s) : ~IsSpace(s[j])
    THEN CHOOSE j \in i..Len(s) :
            ~IsSpace(s[j]) /\ \A k \in i..(j - 1) : IsSpace(s[k])
    ELSE Len(s) + 1

\* the same for the digits: where a greedy \d* started at i ends
SkipDigits(s, i) ==
    IF \E j \in i..Len(s) : ~IsDigit(s[j])
    THEN CHOOSE j \in i..Len(s) :
            ~IsDigit(s[j]) /\ \A k \in i..(j - 1) : IsDigit(s[k])
    ELSE Len(s) + 1

\* str.strip()
Strip(s) ==
    IF \A i \in 1..Len(s) : IsSpace(s[i])
    THEN << >>
    ELSE LET a == CHOOSE i \in 1..Len(s) :
                     ~IsSpace(s[i]) /\ \A k \in 1..(i - 1) : IsSpace(s[k])
             b == CHOOSE i \in 1..Len(s) :
                     ~IsSpace(s[i]) /\ \A k \in (i + 1)..Len(s) : IsSpace(s[k])
         IN  SubSeq(s, a, b)

\* len(s.split()): the maximal runs of non-whitespace characters
WordCount(s) ==
    Cardinality({i \in 1..Len(s) :
                    ~IsSpace(s[i]) /\ (i = 1 \/ IsSpace(s[i - 1]))})

\* len(re.findall(digits, s)): the maximal runs of digits
DigitRuns(s) ==
    Cardinality({i \in 1..Len(s) :
                    IsDigit(s[i]) /\ (i = 1 \/ ~IsDigit(s[i - 1]))})

\* sum(c.isdigit() for c in s)
DigitCount(s) == Cardinality({i \in 1..Len(s) : IsDigit(s[i])})

\* the characters at which str.splitlines() cuts (of this alphabet)
LineBreaks == {"\n", "\r", "\f"}

\* the first position at or after a that holds a line break (Len(s) + 1
\* when there is none)
LineEnd(s, a) ==
    IF \E j \in a..Len(s) : s[j] \in LineBreaks
    THEN CHOOSE j \in a..Len(s) :
            s[j] \in LineBreaks /\ \A k \in a..(j - 1) : s[k] \notin LineBreaks
    ELSE Len(s) + 1

\* text.splitlines(), each line once (and the empty line between the two
\* characters of a \r\n pair, which no pattern of the source matches)
splitlines(s) ==
    {SubSeq(s, a, LineEnd(s, a) - 1) :
        a \in {p \in 1..(Len(s) + 1) : p = 1 \/ s[p - 1] \in LineBreaks}}

\* the positions at which ^ matches under re.MULTILINE
LineStarts(s) == {p \in 1..(Len(s) + 1) : p = 1 \/ s[p - 1] = "\n"}

\* \b after a word character at position e
WordEndsAt(s, e) == IF e >= Len(s) THEN TRUE ELSE ~IsWordChar(s[e + 1])

\* \b before a word character at position i
WordStartsAt(s, i) == IF i = 1 THEN TRUE ELSE ~IsWordChar(s[i - 1])

---------------------------------------------------------------------------
(* The patterns of extract_paragraphs_from_pdf *)

L_Introduction == <<"I","n","t","r","o","d","u","c","t","i","o","n">>

L_ExecutiveSummary ==
    <<"E","x","e","c","u","t","i","v","e"," ","S","u","m","m","a","r","y">>

L_Context == <<"C","o","n","t","e","x","t">>

L_Overview == <<"O","v","e","r","v","i","e","w">>

L_Background == <<"B","a","c","k","g","r","o","u","n","d">>

L_Preamble == <<"P","r","e","a","m","b","l","e">>

L_Chapter == <<"C","h","a","p","t","e","r">>

L_Section == <<"S","e","c","t","i","o","n">>

L_Main == <<"M","a","i","n">>

L_Report == <<"R","e","p","o","r","t">>

L_Agricultural == <<"A","g","r","i","c","u","l","t","u","r","a","l">>

L_Subsidies == <<"S","u","b","s","i","d","i","e","s">>

L_Table == <<"T","a","b","l","e">>

L_Figure == <<"F","i","g","u","r","e">>

\* (1|I|i) under re.IGNORECASE
IsOne(c) == Lower(c) \in {"1", "i"}

\* START_MARKERS[0] matched from the line start p:
\* ^\s*(1|I|i)\.?\s*(Introduction|Executive Summary|Context|Overview|
\*                   Background|Preamble)\b
StartMarker0(s, p) ==
    LET q == SkipSpace(s, p)
        r == IF q + 1 <= Len(s) /\ s[q + 1] = "." THEN q + 2 ELSE q + 1
        w == SkipSpace(s, r)
    IN  /\ q <= Len(s)
        /\ IsOne(s[q])
        /\ \E lit \in {L_Introduction, L_ExecutiveSummary, L_Context,
                       L_Overview, L_Background, L_Preamble} :
              /\ MatchAt(s, w, lit, TRUE)
              /\ WordEndsAt(s, w + Len(lit) - 1)

\* START_MARKERS[1] matched from the line start p:
\* ^\s*(Chapter|Section)\s+(1|I|i)\b
StartMarker1(s, p) ==
    LET q == SkipSpace(s, p)
    IN  \E lit \in {L_Chapter, L_Section} :
           LET r == SkipSpace(s, q + Len(lit))
           IN  /\ MatchAt(s, q, lit, TRUE)
               /\ r > q + Len(lit)
               /\ r <= Len(s)
               /\ IsOne(s[r])
               /\ WordEndsAt(s, r)

\* START_MARKERS[2] and [3] matched from the line start p:
\* ^\s*Main\s+Report\b and ^\s*Agricultural\s+Subsidies\b
StartMarkerTwoWords(s, p, first, second) ==
    LET q == SkipSpace(s, p)
        r == SkipSpace(s, q + Len(first))
    IN  /\ MatchAt(s, q, first, TRUE)
        /\ r > q + Len(first)
        /\ MatchAt(s, r, second, TRUE)
        /\ WordEndsAt(s, r + Len(second) - 1)

\* page_has_marker(text, START_MARKERS)
HasStartMarker(text) ==
    \E p \in LineStarts(text) :
        \/ StartMarker0(text, p)
        \/ StartMarker1(text, p)
        \/ StartMarkerTwoWords(text, p, L_Main, L_Report)
        \/ StartMarkerTwoWords(text, p, L_Agricultural, L_Subsidies)

END_MARKERS ==
    {<<"r","e","f","e","r","e","n","c","e","s">>,
     <<"b","i","b","l","i","o","g","r","a","p","h","y">>,
     <<"a","p","p","e","n","d","i","x">>}

\* HasEndMarker without re.IGNORECASE
HasEndMarkerCaseSensitive(text) ==
    \E lit \in END_MARKERS : \E i \in 1..Len(text) :
        /\ MatchAt(text, i, lit, FALSE)
        /\ WordStartsAt(text, i)
        /\ WordEndsAt(text, i + Len(lit) - 1)

\* page_has_marker(text, END_MARKERS): \bword\b, ignoring case, anywhere
HasEndMarker(text) ==
    \E lit \in END_MARKERS : \E i \in 1..Len(text) :
        /\ MatchAt(text, i, lit, TRUE)
        /\ WordStartsAt(text, i)
        /\ WordEndsAt(text, i + Len(lit) - 1)

\* the least number of characters that must follow the capital letter of a
\* section heading: the 3 of .{3,}
HeadingTail == 3

\* re.match of ^\d+[\.\)]?\s+[A-Z] at the start of t; the position of the
\* capital letter, or 0 when there is no match
NumberedAt(t) ==
    LET d == SkipDigits(t, 1)
        e == IF d <= Len(t) /\ t[d] \in {".", ")"} THEN d + 1 ELSE d
        f == SkipSpace(t, e)
    IN  IF d > 1 /\ f > e /\ f <= Len(t) /\ IsUpper(t[f]) THEN f ELSE 0

\* is_section_heading with .{4,} for .{3,}
is_section_headingFour(text) ==
    LET t == Strip(text)
        f == NumberedAt(t)
    IN  /\ f > 0
        /\ Len(t) - f >= HeadingTail + 1
        /\ \A k \in (f + 1)..(f + HeadingTail + 1) : t[k] # "\n"

\* is_section_heading(text): ^\s*\d+[\.\)]?\s+[A-Z].{3,} on text.strip()
is_section_heading(text) ==
    LET t == Strip(text)
        f == NumberedAt(t)
    IN  /\ f > 0
        /\ Len(t) - f >= HeadingTail
        /\ \A k \in (f + 1)..(f + HeadingTail) : t[k] # "\n"

\* the start trigger of one page
StartTrigger(text) ==
    \/ HasStartMarker(text)
    \/ \E ln \in splitlines(text) : is_section_heading(ln)

---------------------------------------------------------------------------
(* Paragraph reconstruction and the chunk filter *)

\* JoinWrappedLines without the re.sub: the text as it came
JoinWrappedLinesNot(text) == text

\* re.sub(r'(?<!\n)\n(?!\n)', ' ', text): a newline with no newline
\* before it and none after it becomes a space
JoinWrappedLines(text) ==
    [i \in 1..Len(text) |->
        IF /\ text[i] = "\n"
           /\ (i = 1 \/ text[i - 1] # "\n")
           /\ (i = Len(text) \/ text[i + 1] # "\n")
        THEN " "
        ELSE text[i]]

\* re.split(r'\n{2,}', text): the pieces between the runs of two or more
\* newlines, in order
RECURSIVE SplitParagraphs(_)
SplitParagraphs(text) ==
    IF \E i \in 1..(Len(text) - 1) : text[i] = "\n" /\ text[i + 1] = "\n"
    THEN LET a == CHOOSE i \in 1..(Len(text) - 1) :
                     /\ text[i] = "\n" /\ text[i + 1] = "\n"
                     /\ \A k \in 1..(i - 1) :
                           ~(text[k] = "\n" /\ text[k + 1] = "\n")
             b == IF \E j \in a..Len(text) : text[j] # "\n"
                  THEN CHOOSE j \in a..Len(text) :
                          text[j] # "\n" /\ \A k \in a..(j - 1) : text[k] = "\n"
                  ELSE Len(text) + 1
         IN  <<SubSeq(text, 1, a - 1)>>
                \o SplitParagraphs(SubSeq(text, b, Len(text)))
    ELSE <<text>>

\* clean_text(text): the printable characters of text, in order
clean_text(text) == SelectSeq(text, IsPrintable)

\* the thresholds of is_probable_table: a numeric line holds more than 3
\* numbers, 2 numeric lines make a table, and so does a digit ratio above
\* 0.4 = RatioNum / RatioDen
NumericLineNumbers == 3

NumericLines == 2

RatioNum == 4

RatioDen == 10

\* sum(1 for line in text.split('\n') if len(re.findall(digits, line)) > 3)
numeric_lines(text) ==
    Cardinality({a \in LineStarts(text) :
        LET b == IF \E j \in a..Len(text) : text[j] = "\n"
                 THEN CHOOSE j \in a..Len(text) :
                         text[j] = "\n" /\ \A k \in a..(j - 1) : text[k] # "\n"
                 ELSE Len(text) + 1
        IN  DigitRuns(SubSeq(text, a, b - 1)) > NumericLineNumbers})

\* RatioAbove with the threshold one half
RatioAboveHalf(text) ==
    LET n == IF Len(text) >= 1 THEN Len(text) ELSE 1
    IN  2 * DigitCount(text) > n

\* num_ratio > 0.4, where num_ratio = digits / max(1, len(text)): the
\* quotient of two integers below 2^53 rounds to the double 0.4 exactly
\* when it equals 4/10, so the comparison is the one of the integers
RatioAbove(text) ==
    LET n == IF Len(text) >= 1 THEN Len(text) ELSE 1
    IN  RatioDen * DigitCount(text) > RatioNum * n

is_probable_table(text) ==
    \/ Contains(text, L_Table)
    \/ Contains(text, L_Figure)
    \/ numeric_lines(text) >= NumericLines
    \/ RatioAbove(text)

\* the word counts between which a chunk is kept for its length
MinWords == 40

MaxWords == 1000

\* re.match of ^Figure\s+\d+ or ^Table\s+\d+ at the start of para
CaptionAt(para, lit) ==
    LET r == SkipSpace(para, Len(lit) + 1)
    IN  /\ MatchAt(para, 1, lit, FALSE)
        /\ r > Len(lit) + 1
        /\ r <= Len(para)
        /\ IsDigit(para[r])

\* Included with the length rule joined by and instead of or
IncludedAnd(para) ==
    /\ \/ NumberedAt(para) > 0
       \/ CaptionAt(para, L_Figure)
       \/ CaptionAt(para, L_Table)
    /\ (MinWords <= WordCount(para) /\ WordCount(para) <= MaxWords)

\* the inclusion rule of line 73
Included(para) ==
    \/ NumberedAt(para) > 0
    \/ CaptionAt(para, L_Figure)
    \/ CaptionAt(para, L_Table)
    \/ (MinWords <= WordCount(para) /\ WordCount(para) <= MaxWords)

\* para of one chunk
Para(chunk) == clean_text(Strip(chunk))

\* the test of lines 72-73 on one para
Kept(para) == para # << >> /\ ~is_probable_table(para) /\ Included(para)

\* the chunks of one page, in order (lines 68-69)
Chunks(text) == SplitParagraphs(JoinWrappedLines(text))

\* Record with the page counted from 0
RecordZeroBased(file_name, num, para) ==
    [DocumentName |-> file_name, PageNumber |-> num - 1, Paragraph |-> para]

\* the record of line 74
Record(file_name, num, para) ==
    [DocumentName |-> file_name, PageNumber |-> num, Paragraph |-> para]

\* the records one processed page appends (lines 70-74)
PageRecords(file_name, num, text) ==
    LET chunks == Chunks(text)
        paras  == [i \in 1..Len(chunks) |-> Para(chunks[i])]
        kept   == SelectSeq(paras, Kept)
    IN  [i \in 1..Len(kept) |-> Record(file_name, num, kept[i])]

---------------------------------------------------------------------------
(* The pages the documents of the model are made of *)

\* the longest document, in pages
MaxPages == 3

\* n words w, one space between two
Words(n) == [i \in 1..(2 * n - 1) |-> IF i % 2 = 1 THEN "w" ELSE " "]

\* n words made of the letter e-acute alone
AccentedWords(n) == [i \in 1..(2 * n - 1) |-> IF i % 2 = 1 THEN "U+00E9" ELSE " "]

\* n numbers 11, one space between two
Numbers(n) == [i \in 1..(3 * n - 1) |-> IF i % 3 = 0 THEN " " ELSE "1"]

NL == <<"\n">>

Blank == <<"\n", "\n">>

T_Introduction1 == <<"1","."," ","I","n","t","r","o","d","u","c","t","i","o","n">>

T_References == <<"R","e","f","e","r","e","n","c","e","s">>

\* cover matter: prose, a table caption, a block of numbers, a short
\* paragraph and two numbered items; no line of it is a start trigger
CoverText ==
    Words(55) \o Blank \o <<"T","a","b","l","e"," ","3"," ","w"," ","w">>
      \o Blank \o Numbers(40) \o Blank \o Words(39)
      \o Blank \o <<"1","2","."," ","A">> \o Blank \o <<"1","2"," ","A">>

\* the heading, a blank line, a paragraph of 50 words
IntroBlankText == T_Introduction1 \o Blank \o Words(50)

\* the heading and a paragraph of 50 words on the lines after it
IntroWrapText == T_Introduction1 \o NL \o Words(50)

\* a reference list
ReferencesText == T_References \o NL \o Words(55)

\* two lines of one paragraph, each with 4 numbers among its words
T_Rows1 ==
    <<"3","."," ","R","o","w","s"," ","1"," ","w"," ","2"," ","w"," ","3",
      " ","w"," ","w","w","w","w","w">>

T_Rows2 ==
    <<"w"," ","1"," ","w"," ","2"," ","w"," ","3"," ","w"," ","4"," ","w",
      "w","w","w","w">>

\* a section that starts by its numbered heading alone and holds a
\* paragraph of 55 words with the word Tables in it, one of 55 words of
\* which 16 are unprintable, one of 55 plain words, and the two lines
\* with numbers
ScopeText ==
    <<"2",")"," ","S","c","o","p","e">>
      \o Blank \o <<"T","a","b","l","e","s"," ">> \o Words(54)
      \o Blank \o Words(39) \o <<" ">> \o AccentedWords(16)
      \o Blank \o Words(55)
      \o Blank \o T_Rows1 \o NL \o T_Rows2

\* a first chapter that points to the appendix
ChapterText ==
    <<"C","h","a","p","t","e","r"," ","1">> \o Blank \o Words(55)
      \o Blank \o <<"s","e","e"," ","A","p","p","e","n","d","i","x"," ","A">>

\* a heading line with the capital letter and 2 more characters
T_Head2 == <<"1","."," ","A","b","c">>

\* a heading line with the capital letter and 3 more characters
T_Head3 == <<"1","."," ","A","b","c","d">>

\* a heading line with the capital letter and 4 more characters
T_Head4 == <<"1","."," ","A","b","c","d","e">>

\* a heading line with a closing parenthesis after the number
T_Head3Paren == <<"2",")"," ","A","b","c","d">>

\* a heading line with no punctuation after the number
T_Head3Bare == <<"1","2"," ","A","b","c","d">>

\* a heading line with a tab after the number
T_Head3Tab == <<"7",".","\t","A","b","c","d">>

\* a heading line with 2 more characters and a space at the end of the line
T_Head2Trail == <<"1","."," ","A","b","c"," ">>

\* a heading line with a small letter after the number
T_HeadLower == <<"1","."," ","a","b","c","d","e">>

\* a heading line with no whitespace after the number
T_HeadNoSpace == <<"1",".","A","b","c","d","e">>

\* a heading line with 3 more characters, indented, on the second line
T_Head3Inner == <<"w"," ","w","\n"," "," ","4","."," ","A","b","c","d">>

\* the page of a heading line: the line and a paragraph of 45 words
HeadingPage(line) == line \o Blank \o Words(45)

Pages == {"Cover", "IntroBlank", "IntroWrap", "References", "Scope", "Chapter"}

\* the pages of the documents on which the heading test is tried
HeadPages ==
    {"Head2", "Head3", "Head4", "Head3Paren", "Head3Bare", "Head3Tab",
     "Head2Trail", "HeadLower", "HeadNoSpace", "Head3Inner", "References"}

\* page.get_text("text")
get_text(page) ==
    CASE page = "Cover"      -> CoverText
      [] page = "IntroBlank" -> IntroBlankText
      [] page = "IntroWrap"  -> IntroWrapText
      [] page = "References" -> ReferencesText
      [] page = "Scope"      -> ScopeText
      [] page = "Chapter"    -> ChapterText
      [] page = "Head2"       -> HeadingPage(T_Head2)
      [] page = "Head3"       -> HeadingPage(T_Head3)
      [] page = "Head4"       -> HeadingPage(T_Head4)
      [] page = "Head3Paren"  -> HeadingPage(T_Head3Paren)
      [] page = "Head3Bare"   -> HeadingPage(T_Head3Bare)
      [] page = "Head3Tab"    -> HeadingPage(T_Head3Tab)
      [] page = "Head2Trail"  -> HeadingPage(T_Head2Trail)
      [] page = "HeadLower"   -> HeadingPage(T_HeadLower)
      [] page = "HeadNoSpace" -> HeadingPage(T_HeadNoSpace)
      [] page = "Head3Inner"  -> HeadingPage(T_Head3Inner)

\* the documents of at most MaxPages pages
Documents == UNION {[1..n -> Pages] : n \in 1..MaxPages}

\* the longest document of heading pages, in pages
MaxHeadPages == 2

\* the documents on which the heading test is tried
HeadDocuments == UNION {[1..n -> HeadPages] : n \in 1..MaxHeadPages}

---------------------------------------------------------------------------
(* extract_paragraphs_from_pdf as a state machine over the pages *)

\* Skips without the continue: no page is passed over
SkipsNothing(started, text) == FALSE

\* lines 60-65: the page is passed over
Skips(started, text) == ~started /\ ~StartTrigger(text)

\* Stops with the end markers matched without re.IGNORECASE
StopsCaseSensitive(text) == HasEndMarkerCaseSensitive(text)

\* line 66: the scan stops at this page
Stops(text) == HasEndMarker(text)

\* st.session_state without a key
NoKeys == [key \in {} |-> << >>]

\* the variables of the script runs while a function is studied alone
RunUnused ==
    /\ uploaded_files = << >>
    /\ file_no = 0
    /\ all_results = << >>
    /\ session_state = NoKeys
    /\ offered = << >>
    /\ run_no = 0

SegInit ==
    /\ doc \in Documents
    /\ name = "a.pdf"
    /\ page_num = 1
    /\ found_start = FALSE
    /\ paragraphs = << >>
    /\ earlier = << >>
    /\ df = << >>
    /\ idx = 0
    /\ res = << >>
    /\ calls = << >>
    /\ err = << >>
    /\ events = << >>
    /\ RunUnused
    /\ pc = "scan"

\* lines 60-65, the else branch: continue
SkipPage ==
    /\ pc = "scan"
    /\ page_num <= Len(doc)
    /\ Skips(found_start, get_text(doc[page_num]))
    /\ page_num' = page_num + 1
    /\ UNCHANGED <<doc, name, found_start, paragraphs, pc, clsvars, runvars, earlier>>

\* lines 60-67: the page is at or after the start and holds an end marker
StopAtEnd ==
    /\ pc = "scan"
    /\ page_num <= Len(doc)
    /\ ~Skips(found_start, get_text(doc[page_num]))
    /\ Stops(get_text(doc[page_num]))
    /\ found_start' = TRUE
    /\ pc' = "done"
    /\ UNCHANGED <<doc, name, page_num, paragraphs, clsvars, runvars, earlier>>

\* ProcessPage with the records of the page put before the earlier ones
ProcessPagePrepends ==
    /\ pc = "scan"
    /\ page_num <= Len(doc)
    /\ ~Skips(found_start, get_text(doc[page_num]))
    /\ ~Stops(get_text(doc[page_num]))
    /\ found_start' = TRUE
    /\ paragraphs' =
          PageRecords(name, page_num, get_text(doc[page_num])) \o paragraphs
    /\ page_num' = page_num + 1
    /\ UNCHANGED <<doc, name, pc, clsvars, runvars, earlier>>

\* lines 60-74: the page is at or after the start and is cut into records
ProcessPage ==
    /\ pc = "scan"
    /\ page_num <= Len(doc)
    /\ ~Skips(found_start, get_text(doc[page_num]))
    /\ ~Stops(get_text(doc[page_num]))
    /\ found_start' = TRUE
    /\ paragraphs' =
          paragraphs \o PageRecords(name, page_num, get_text(doc[page_num]))
    /\ page_num' = page_num + 1
    /\ UNCHANGED <<doc, name, pc, clsvars, runvars, earlier>>

\* line 75: the pages are exhausted
ReturnParagraphs ==
    /\ pc = "scan"
    /\ page_num > Len(doc)
    /\ pc' = "done"
    /\ UNCHANGED <<doc, name, page_num, found_start, paragraphs, clsvars, runvars, earlier>>

SegNext == SkipPage \/ StopAtEnd \/ ProcessPage \/ ReturnParagraphs

\* the state after lines 55-56 on a document of heading pages
HeadInit ==
    /\ doc \in HeadDocuments
    /\ name = "a.pdf"
    /\ page_num = 1
    /\ found_start = FALSE
    /\ paragraphs = << >>
    /\ earlier = << >>
    /\ df = << >>
    /\ idx = 0
    /\ res = << >>
    /\ calls = << >>
    /\ err = << >>
    /\ events = << >>
    /\ RunUnused
    /\ pc = "scan"

\* extract_paragraphs_from_pdf on the documents of heading pages
HeadSpec == HeadInit /\ [][SegNext]_vars

SegSpec == SegInit /\ [][SegNext]_vars

\* CallAgain with found_start kept from the call before, as a flag that
\* lives outside the function would be
CallAgainKeepsFlag ==
    /\ pc = "done"
    /\ earlier = << >>
    /\ earlier' = <<paragraphs>>
    /\ paragraphs' = << >>
    /\ page_num' = 1
    /\ pc' = "scan"
    /\ UNCHANGED <<doc, name, found_start, clsvars, runvars>>

\* lines 55-58 once more: the function is called a second time on the
\* same pages and file name, and its locals are set anew
CallAgain ==
    /\ pc = "done"
    /\ earlier = << >>
    /\ earlier' = <<paragraphs>>
    /\ paragraphs' = << >>
    /\ found_start' = FALSE
    /\ page_num' = 1
    /\ pc' = "scan"
    /\ UNCHANGED <<doc, name, clsvars, runvars>>

SegTwiceNext == SegNext \/ CallAgain

\* two calls of extract_paragraphs_from_pdf on one document
SegTwiceSpec == SegInit /\ [][SegTwiceNext]_vars

---------------------------------------------------------------------------
(* The strings of classify_paragraphs *)

L_MainTheme ==
    <<"M","a","i","n"," ","T","h","e","m","e",":">>

L_SubThemes ==
    <<"S","u","b","-","T","h","e","m","e","s",":">>

L_Summary ==
    <<"S","u","m","m","a","r","y",":">>

PARSE_ERROR ==
    <<"P","A","R","S","E","_","E","R","R","O","R">>

\* the prefix of line 142
ParseErrorPrefix ==
    <<"P","A","R","S","E"," ","E","R","R","O","R",":"," ">>

\* the prefix of line 134
ErrorPrefix ==
    <<"E","R","R","O","R",":"," ">>

\* str(e) of the IndexError of a [1] on a list of one element
IndexErrorText ==
    <<"l","i","s","t"," ","i","n","d","e","x"," ","o","u","t"," ","o","f",
      " ","r","a","n","g","e">>

\* str(e) of the AttributeError of None.split
AttributeErrorText ==
    <<"'","N","o","n","e","T","y","p","e","'"," ","o","b","j","e","c","t",
      " ","h","a","s"," ","n","o"," ","a","t","t","r","i","b","u","t","e",
      " ","'","s","p","l","i","t","'">>

\* message.content of a reply without content: None, which is no string
NoneValue == <<"NoneType">>

\* the first position at which sep stands in s, 0 when it stands nowhere
Find(s, sep) ==
    IF \E i \in 1..Len(s) : MatchAt(s, i, sep, FALSE)
    THEN CHOOSE i \in 1..Len(s) :
            /\ MatchAt(s, i, sep, FALSE)
            /\ \A k \in 1..(i - 1) : ~MatchAt(s, k, sep, FALSE)
    ELSE 0

\* s.split(sep): the pieces of s between the occurrences of sep, taken
\* from the left and not overlapping
RECURSIVE Split(_, _)
Split(s, sep) ==
    IF Find(s, sep) = 0
    THEN <<s>>
    ELSE <<SubSeq(s, 1, Find(s, sep) - 1)>>
            \o Split(SubSeq(s, Find(s, sep) + Len(sep), Len(s)), sep)

\* s.strip(chars)
StripChars(s, chars) ==
    IF \A i \in 1..Len(s) : s[i] \in chars
    THEN << >>
    ELSE LET a == CHOOSE i \in 1..Len(s) :
                     s[i] \notin chars /\ \A k \in 1..(i - 1) : s[k] \in chars
             b == CHOOSE i \in 1..Len(s) :
                     s[i] \notin chars /\ \A k \in (i + 1)..Len(s) : s[k] \in chars
         IN  SubSeq(s, a, b)

\* sep.join(parts)
RECURSIVE Join(_, _)
Join(sep, parts) ==
    IF parts = << >> THEN << >>
    ELSE IF Len(parts) = 1 THEN parts[1]
    ELSE parts[1] \o sep \o Join(sep, Tail(parts))

\* the keys of theme_codebook
main_themes ==
    {<<"F","a","r","m","e","r"," ","W","e","l","f","a","r","e">>,
     <<"P","r","o","d","u","c","t","i","o","n"," ","S","u","p","p","o","r","t">>,
     <<"P","r","i","c","e"," ","S","u","p","p","o","r","t">>,
     <<"R","i","s","k"," ","M","a","n","a","g","e","m","e","n","t">>,
     <<"E","n","v","i","r","o","n","m","e","n","t","a","l"," ","S","u","s",
       "t","a","i","n","a","b","i","l","i","t","y">>,
     <<"F","i","n","a","n","c","i","n","g">>}

\* safe_theme_name without the replace: the spaces stay
safe_theme_nameKeepsSpaces(theme) ==
    Strip(SelectSeq(theme, LAMBDA c : IsWordChar(c) \/ IsSpace(c) \/ c = "-"))

\* safe_theme_name(theme): the characters outside \w, \s and - removed,
\* the result stripped, its spaces replaced by underscores
safe_theme_name(theme) ==
    LET kept == Strip(SelectSeq(theme,
                    LAMBDA c : IsWordChar(c) \/ IsSpace(c) \/ c = "-"))
    IN  [i \in 1..Len(kept) |-> IF kept[i] = " " THEN "_" ELSE kept[i]]

\* res.split(label)[1] raises: res is None, or label is not in res
Raises(r, label) ==
    IF r = NoneValue THEN TRUE ELSE Len(Split(r, label)) < 2

\* str(e) of the exception
ExceptionText(r) == IF r = NoneValue THEN AttributeErrorText ELSE IndexErrorText

\* line 136
MainThemeOf(r) ==
    safe_theme_name(Strip(Split(Split(r, L_MainTheme)[2], L_SubThemes)[1]))

\* lines 137-138
SubThemesOf(r) ==
    LET subs  == Strip(Split(Split(r, L_SubThemes)[2], L_Summary)[1])
        parts == Split(StripChars(subs, {"[", "]"}), <<",">>)
    IN  Join(<<",", " ">>, [k \in 1..Len(parts) |-> Strip(parts[k])])

\* line 139
SummaryOf(r) == Strip(Split(r, L_Summary)[2])

\* ErrorRow that leaves the Main Theme as it stands
ErrorRowKeepsTheme(row, r, text) ==
    [row EXCEPT !.SubThemes = ParseErrorPrefix \o text,
                !.ResearchSummary = r]

\* lines 141-143
ErrorRow(row, r, text) ==
    [row EXCEPT !.MainTheme = PARSE_ERROR,
                !.SubThemes = ParseErrorPrefix \o text,
                !.ResearchSummary = r]

---------------------------------------------------------------------------
(* The replies and failures of the classifier service *)

\* the longest batch, in rows
MaxRecords == 2

ReplyGood ==
    <<"M","a","i","n"," ","T","h","e","m","e",":"," ","P","r","i","c","e",
      " ","S","u","p","p","o","r","t","\n","S","u","b","-","T","h","e",
      "m","e","s",":"," ","[","M","a","r","k","e","t","i","n","g",","," ",
      "P","r","i","c","e"," ","S","t","a","b","i","l","i","t","y","]",
      "\n","S","u","m","m","a","r","y",":"," ","F","a","i","r"," ","p",
      "r","i","c","e","s",".">>

ReplyBold ==
    <<"*","*","M","a","i","n"," ","T","h","e","m","e",":","*","*"," ","F",
      "a","r","m","e","r"," ","W","e","l","f","a","r","e","!","\n","S",
      "u","b","-","T","h","e","m","e","s",":"," ","F","a","r","m","e","r",
      " ","I","n","c","o","m","e","s"," ","\n","S","u","m","m","a","r",
      "y",":"," ","I","n","c","o","m","e","s"," ","f","e","l","l",".",
      "\n">>

ReplyNoMainTheme ==
    <<"S","u","b","-","T","h","e","m","e","s",":"," ","[","M","a","r","k",
      "e","t","i","n","g","]","\n","S","u","m","m","a","r","y",":"," ",
      "F","a","i","r"," ","p","r","i","c","e","s",".">>

ReplyNoSubThemes ==
    <<"M","a","i","n"," ","T","h","e","m","e",":"," ","F","i","n","a","n",
      "c","i","n","g","\n","S","u","m","m","a","r","y",":"," ","F","a",
      "i","r"," ","p","r","i","c","e","s",".">>

ReplyNoSummary ==
    <<"M","a","i","n"," ","T","h","e","m","e",":"," ","F","i","n","a","n",
      "c","i","n","g","\n","S","u","b","-","T","h","e","m","e","s",":",
      " ","[","M","a","r","k","e","t","i","n","g","]">>

\* the summary quotes an Executive Summary: the third label stands twice
ReplyInnerLabel ==
    <<"M","a","i","n"," ","T","h","e","m","e",":"," ","F","i","n","a","n",
      "c","i","n","g","\n","S","u","b","-","T","h","e","m","e","s",":",
      " ","[","P","r","i","v","a","t","e"," ","F","i","n","a","n","c","i",
      "n","g","]","\n","S","u","m","m","a","r","y",":"," ","E","x","e",
      "c","u","t","i","v","e"," ","S","u","m","m","a","r","y",":"," ","c",
      "o","s","t","s"," ","r","i","s","e",".">>

\* the three labels with nothing after any of them
ReplyBlankFields ==
    <<"M","a","i","n"," ","T","h","e","m","e",":"," ","S","u","b","-","T",
      "h","e","m","e","s",":"," ","S","u","m","m","a","r","y",":">>

\* a reply whose content is the empty string
ReplyEmpty == << >>

\* the values message.content may take
Replies ==
    {ReplyGood, ReplyBold, ReplyNoMainTheme, ReplyNoSubThemes,
     ReplyNoSummary, ReplyInnerLabel, ReplyBlankFields, ReplyEmpty, NoneValue}

ConnectionError ==
    <<"C","o","n","n","e","c","t","i","o","n"," ","e","r","r","o","r",".">>

\* a failure whose text quotes the format lines of the prompt
EchoError ==
    <<"b","a","d"," ","r","e","q","u","e","s","t",":"," ","M","a","i","n",
      " ","T","h","e","m","e",":"," ","x"," ","S","u","b","-","T","h","e",
      "m","e","s",":"," ","y"," ","S","u","m","m","a","r","y",":"," ","z">>

\* the texts str(e) may take when the call raises
FailureTexts == {ConnectionError, IndexErrorText, EchoError}

\* row k of the frame handed to classify_paragraphs: a record of the
\* Segmenter
BatchRow(k) ==
    Record("a.pdf", k, IF k % 2 = 1 THEN T_Introduction1 ELSE Words(40))

\* the frames of at most MaxRecords rows
Batches == {[k \in 1..n |-> BatchRow(k)] : n \in 1..MaxRecords}

---------------------------------------------------------------------------
(* classify_paragraphs as a state machine over the rows *)

ClsInit ==
    /\ doc = << >>
    /\ name = "a.pdf"
    /\ page_num = 0
    /\ found_start = FALSE
    /\ paragraphs = << >>
    /\ earlier = << >>
    /\ df \in Batches
    /\ idx = 0
    /\ res = << >>
    /\ calls = << >>
    /\ err = << >>
    /\ events = << >>
    /\ RunUnused
    /\ pc = "start"

\* lines 122-124: the three columns are created empty
CreateColumns ==
    /\ pc = "start"
    /\ df' = [k \in 1..Len(df) |->
                [DocumentName |-> df[k].DocumentName,
                 PageNumber |-> df[k].PageNumber,
                 Paragraph |-> df[k].Paragraph,
                 MainTheme |-> << >>,
                 SubThemes |-> << >>,
                 ResearchSummary |-> << >>]]
    /\ idx' = 1
    /\ pc' = "loop"
    /\ UNCHANGED <<segvars, runvars, res, calls, err, events>>

\* lines 125-132: the prompt of the next row is sent
IssueRequest ==
    /\ pc = "loop"
    /\ idx <= Len(df)
    /\ events' = Append(events, [kind |-> "request", row |-> idx])
    /\ pc' = "call"
    /\ UNCHANGED <<segvars, runvars, df, idx, res, calls, err>>

\* lines 128-132: the service answers
ReceiveReply ==
    /\ pc = "call"
    /\ \E r \in Replies :
          /\ res' = r
          /\ calls' = Append(calls, [row |-> idx, outcome |-> "reply", res |-> r])
    /\ events' = Append(events, [kind |-> "reply", row |-> idx])
    /\ pc' = "parse"
    /\ UNCHANGED <<segvars, runvars, df, idx, err>>

\* CallFails with one retry: the first failure of a row sends the loop
\* back to the request of that row
CallFailsRetriesOnce ==
    /\ pc = "call"
    /\ \E e \in FailureTexts :
          /\ res' = ErrorPrefix \o e
          /\ calls' = Append(calls, [row |-> idx, outcome |-> "raised",
                                     res |-> ErrorPrefix \o e])
    /\ events' = Append(events, [kind |-> "raised", row |-> idx])
    /\ pc' = IF \E p \in 1..Len(events) :
                   events[p] = [kind |-> "raised", row |-> idx]
             THEN "parse" ELSE "loop"
    /\ UNCHANGED <<segvars, runvars, df, idx, err>>

\* lines 133-134: the call raises
CallFails ==
    /\ pc = "call"
    /\ \E e \in FailureTexts :
          /\ res' = ErrorPrefix \o e
          /\ calls' = Append(calls, [row |-> idx, outcome |-> "raised",
                                     res |-> ErrorPrefix \o e])
    /\ events' = Append(events, [kind |-> "raised", row |-> idx])
    /\ pc' = "parse"
    /\ UNCHANGED <<segvars, runvars, df, idx, err>>

\* line 136
ParseMainTheme ==
    /\ pc = "parse"
    /\ IF Raises(res, L_MainTheme)
       THEN /\ err' = ExceptionText(res)
            /\ pc' = "except"
            /\ UNCHANGED <<df, events>>
       ELSE /\ events' = Append(events, [kind |-> "write MainTheme", row |-> idx])
            /\ df' = [df EXCEPT ![idx].MainTheme = MainThemeOf(res)]
            /\ pc' = "parse_subs"
            /\ UNCHANGED err
    /\ UNCHANGED <<segvars, runvars, idx, res, calls>>

\* lines 137-138
ParseSubThemes ==
    /\ pc = "parse_subs"
    /\ IF Raises(res, L_SubThemes)
       THEN /\ err' = ExceptionText(res)
            /\ pc' = "except"
            /\ UNCHANGED <<df, events>>
       ELSE /\ events' = Append(events, [kind |-> "write SubThemes", row |-> idx])
            /\ df' = [df EXCEPT ![idx].SubThemes = SubThemesOf(res)]
            /\ pc' = "parse_summary"
            /\ UNCHANGED err
    /\ UNCHANGED <<segvars, runvars, idx, res, calls>>

\* line 139
ParseSummary ==
    /\ pc = "parse_summary"
    /\ IF Raises(res, L_Summary)
       THEN /\ err' = ExceptionText(res)
            /\ pc' = "except"
            /\ UNCHANGED <<df, events>>
       ELSE /\ events' = Append(events, [kind |-> "write ResearchSummary", row |-> idx])
            /\ df' = [df EXCEPT ![idx].ResearchSummary = SummaryOf(res)]
            /\ pc' = "sleep"
            /\ UNCHANGED err
    /\ UNCHANGED <<segvars, runvars, idx, res, calls>>

\* HandleParseError with the sleep inside the try: a failed parse goes on
\* to the next row at once
HandleParseErrorNoSleep ==
    /\ pc = "except"
    /\ df' = [df EXCEPT ![idx] = ErrorRow(@, res, err)]
    /\ events' = events \o
          <<[kind |-> "write MainTheme", row |-> idx],
            [kind |-> "write SubThemes", row |-> idx],
            [kind |-> "write ResearchSummary", row |-> idx]>>
    /\ idx' = idx + 1
    /\ pc' = "loop"
    /\ UNCHANGED <<segvars, runvars, res, calls, err>>

\* lines 140-143
HandleParseError ==
    /\ pc = "except"
    /\ df' = [df EXCEPT ![idx] = ErrorRow(@, res, err)]
    /\ events' = events \o
          <<[kind |-> "write MainTheme", row |-> idx],
            [kind |-> "write SubThemes", row |-> idx],
            [kind |-> "write ResearchSummary", row |-> idx]>>
    /\ pc' = "sleep"
    /\ UNCHANGED <<segvars, runvars, idx, res, calls, err>>

\* line 144, and the loop moves to the next row
Sleep ==
    /\ pc = "sleep"
    /\ idx' = idx + 1
    /\ events' = Append(events, [kind |-> "sleep", row |-> idx])
    /\ pc' = "loop"
    /\ UNCHANGED <<segvars, runvars, df, res, calls, err>>

\* line 145: the rows are exhausted
ReturnFrame ==
    /\ pc = "loop"
    /\ idx > Len(df)
    /\ pc' = "done"
    /\ UNCHANGED <<segvars, runvars, df, idx, res, calls, err, events>>

ClsNext ==
    \/ CreateColumns
    \/ IssueRequest
    \/ ReceiveReply
    \/ CallFails
    \/ ParseMainTheme
    \/ ParseSubThemes
    \/ ParseSummary
    \/ HandleParseError
    \/ Sleep
    \/ ReturnFrame

ClsSpec == ClsInit /\ [][ClsNext]_vars

---------------------------------------------------------------------------
(* The run block and the display block as a state machine over the script *)
(* runs of one session                                                    *)

\* the most files in one upload
MaxFiles == 2

\* the most script runs of the session
MaxRuns == 2

\* the content of a file that fitz.open cannot read
Unreadable == <<"unreadable">>

\* the files a user may upload: one page that yields a record, front matter
\* that yields none, two pages that yield two records, and a broken file
Files ==
    {[name |-> "good.pdf",   pages |-> <<"IntroWrap">>],
     [name |-> "front.pdf",  pages |-> <<"Cover">>],
     [name |-> "body.pdf",   pages |-> <<"Cover", "IntroBlank">>],
     [name |-> "broken.pdf", pages |-> Unreadable]}

\* what the uploader may hold
Uploads == UNION {[1..n -> Files] : n \in 0..MaxFiles}

\* line 55 returns
Readable(file) == file.pages # Unreadable

\* lines 58-75 from page num on, started being found_start
RECURSIVE Scan(_, _, _, _)
Scan(pages, file_name, num, started) ==
    IF num > Len(pages) THEN << >>
    ELSE LET text == get_text(pages[num])
         IN  IF Skips(started, text)
             THEN Scan(pages, file_name, num + 1, started)
             ELSE IF Stops(text) THEN << >>
             ELSE PageRecords(file_name, num, text)
                     \o Scan(pages, file_name, num + 1, TRUE)

\* what extract_paragraphs_from_pdf returns for each readable file
Extracted ==
    [file \in {f \in Files : Readable(f)} |->
        Scan(file.pages, file.name, 1, FALSE)]

\* extract_paragraphs_from_pdf(file), file being readable
extract_paragraphs_from_pdf(file) == Extracted[file]

\* the values res may hold after lines 127-134 in a script run: a reply
\* that parses, a reply that does not, and a failed call
RunOutcomes == {ReplyGood, ReplyNoSummary, ErrorPrefix \o ConnectionError}

\* lines 122-124 on one row
Columns(row) ==
    [DocumentName |-> row.DocumentName,
     PageNumber |-> row.PageNumber,
     Paragraph |-> row.Paragraph,
     MainTheme |-> << >>,
     SubThemes |-> << >>,
     ResearchSummary |-> << >>]

\* one of the lines 136, 137 and 139 raises
ParseFails(r) ==
    Raises(r, L_MainTheme) \/ Raises(r, L_SubThemes) \/ Raises(r, L_Summary)

\* lines 135-143 for each value of res: the three fields they leave
Fields ==
    [r \in RunOutcomes |->
        IF ParseFails(r)
        THEN ErrorRow([MainTheme |-> << >>, SubThemes |-> << >>,
                       ResearchSummary |-> << >>], r, ExceptionText(r))
        ELSE [MainTheme |-> MainThemeOf(r),
              SubThemes |-> SubThemesOf(r),
              ResearchSummary |-> SummaryOf(r)]]

\* lines 135-143 on one row, r being res
ClassifiedRow(row, r) ==
    [Columns(row) EXCEPT !.MainTheme = Fields[r].MainTheme,
                         !.SubThemes = Fields[r].SubThemes,
                         !.ResearchSummary = Fields[r].ResearchSummary]

\* what classify_paragraphs returns for a frame, out[k] being res at row k
classify_paragraphs(frame, out) ==
    [k \in 1..Len(frame) |-> ClassifiedRow(frame[k], out[k])]

\* pd.concat(frames, ignore_index=True)
RECURSIVE Concat(_)
Concat(frames) ==
    IF frames = << >> THEN << >> ELSE Head(frames) \o Concat(Tail(frames))

RunInit ==
    /\ doc = << >>
    /\ name = ""
    /\ page_num = 0
    /\ found_start = FALSE
    /\ paragraphs = << >>
    /\ earlier = << >>
    /\ df = << >>
    /\ idx = 0
    /\ res = << >>
    /\ calls = << >>
    /\ err = << >>
    /\ events = << >>
    /\ RunUnused
    /\ pc = "idle"

\* lines 149-157: the script runs with the button pressed and files in the
\* uploader
PressRun ==
    /\ pc = "idle"
    /\ run_no < MaxRuns
    /\ \E files \in Uploads \ {<< >>} : uploaded_files' = files
    /\ all_results' = << >>
    /\ file_no' = 1
    /\ offered' = << >>
    /\ run_no' = run_no + 1
    /\ pc' = "files"
    /\ UNCHANGED <<segvars, clsvars, session_state>>

\* line 155 is false: the script runs for another reason than the button
\* (a download, a change of the upload) and goes to the display block
Rerun ==
    /\ pc = "idle"
    /\ run_no < MaxRuns
    /\ offered' = << >>
    /\ run_no' = run_no + 1
    /\ pc' = "display"
    /\ UNCHANGED <<segvars, clsvars, uploaded_files, file_no, all_results,
                   session_state>>

\* lines 159-161 on a file that fitz.open cannot read: the exception of
\* line 55 is caught nowhere and ends the script run
ExtractFails ==
    /\ pc = "files"
    /\ file_no <= Len(uploaded_files)
    /\ ~Readable(uploaded_files[file_no])
    /\ pc' = "idle"
    /\ UNCHANGED <<segvars, clsvars, runvars>>

\* lines 159-164 and 167-168 on a readable file: an empty frame is warned
\* about and the loop goes on
ExtractFile ==
    /\ pc = "files"
    /\ file_no <= Len(uploaded_files)
    /\ Readable(uploaded_files[file_no])
    /\ LET found == extract_paragraphs_from_pdf(uploaded_files[file_no])
       IN  /\ paragraphs' = found
           /\ df' = found
           /\ IF found = << >>
              THEN file_no' = file_no + 1 /\ pc' = "files"
              ELSE file_no' = file_no /\ pc' = "classify"
    /\ name' = uploaded_files[file_no].name
    /\ UNCHANGED <<doc, page_num, found_start, earlier, idx, res, calls, err,
                   events, uploaded_files, all_results, session_state,
                   offered, run_no>>

\* lines 165-166
ClassifyFrame ==
    /\ pc = "classify"
    /\ \E out \in [1..Len(df) -> RunOutcomes] :
          LET frame == classify_paragraphs(df, out)
          IN  /\ df' = frame
              /\ all_results' = Append(all_results, frame)
    /\ file_no' = file_no + 1
    /\ pc' = "files"
    /\ UNCHANGED <<segvars, idx, res, calls, err, events, uploaded_files,
                   session_state, offered, run_no>>

\* lines 170-174, after the last file
Combine ==
    /\ pc = "files"
    /\ file_no > Len(uploaded_files)
    /\ session_state' =
          IF all_results # << >>
          THEN [combined_df |-> Concat(all_results)]
          ELSE session_state
    /\ pc' = "display"
    /\ UNCHANGED <<segvars, clsvars, uploaded_files, file_no, all_results,
                   offered, run_no>>

\* lines 177-192: the stored frame, when there is one, is put behind the
\* download buttons (the frames of the themes are rows of it)
Display ==
    /\ pc = "display"
    /\ offered' = IF "combined_df" \in DOMAIN session_state
                  THEN <<session_state.combined_df>>
                  ELSE << >>
    /\ pc' = "idle"
    /\ UNCHANGED <<segvars, clsvars, uploaded_files, file_no, all_results,
                   session_state, run_no>>

RunNext ==
    \/ PressRun
    \/ Rerun
    \/ ExtractFails
    \/ ExtractFile
    \/ ClassifyFrame
    \/ Combine
    \/ Display

RunSpec == RunInit /\ [][RunNext]_vars

---------------------------------------------------------------------------
(* Properties of the Segmenter *)

\* the text of page p of the document
Text(p) == get_text(doc[p])

\* the first page on which a start trigger fires (Len(doc) + 1: none)
FirstTriggerPage ==
    LET triggering == {p \in 1..Len(doc) : StartTrigger(Text(p))}
    IN  IF triggering = {}
        THEN Len(doc) + 1
        ELSE CHOOSE p \in triggering : \A q \in triggering : p <= q

\* the records of the output that carry page number p
RecordsOf(p) == SelectSeq(paragraphs, LAMBDA r : r.PageNumber = p)

\* the paragraphs page p would yield if it were cut into records
WouldYield(p) == PageRecords(name, p, Text(p))

\* C1: no record comes from a page before the first page on which a start
\* trigger fires, and a document in which no page triggers yields no record
C1_NothingBeforeStart ==
    LET first == FirstTriggerPage
    IN  /\ \A i \in 1..Len(paragraphs) : paragraphs[i].PageNumber >= first
        /\ (first > Len(doc) => paragraphs = << >>)

\* C1 happens: the scan is over, a page before the first triggering page
\* holds chunks that pass the filter, and records were emitted after it
C1_Witness ==
    /\ pc = "done"
    /\ FirstTriggerPage > 1
    /\ FirstTriggerPage <= Len(doc)
    /\ WouldYield(1) # << >>
    /\ paragraphs # << >>

\* C2 as stated: no record comes from a page that matches an end marker or
\* from any page after it
C2_NothingFromAnyEndPage ==
    \A p \in 1..Len(doc) :
        HasEndMarker(Text(p)) =>
            \A i \in 1..Len(paragraphs) : paragraphs[i].PageNumber < p

\* C2 amended: no record comes from a page that matches an end marker or
\* from any page after it, when that page is the first triggering page or
\* a later one
C2_NothingFromEndPageAfterStart ==
    LET first == FirstTriggerPage
    IN  \A p \in 1..Len(doc) :
            (p >= first /\ HasEndMarker(Text(p))) =>
                \A i \in 1..Len(paragraphs) : paragraphs[i].PageNumber < p

\* C2 happens: the scan stopped at an end page after emitting records, and
\* the page after the end page holds chunks that pass the filter
C2_Witness ==
    /\ pc = "done"
    /\ paragraphs # << >>
    /\ page_num < Len(doc)
    /\ page_num >= FirstTriggerPage
    /\ HasEndMarker(Text(page_num))
    /\ WouldYield(page_num + 1) # << >>

\* every chunk of the page under the scan that passes the filter is among
\* the records this step appends, with the number of that page
EmitsPage ==
    /\ Len(paragraphs') >= Len(paragraphs)
    /\ SubSeq(paragraphs', 1, Len(paragraphs)) = paragraphs
    /\ LET chunks == Chunks(Text(page_num))
       IN  \A i \in 1..Len(chunks) :
              Kept(Para(chunks[i])) =>
                 \E j \in (Len(paragraphs) + 1)..Len(paragraphs') :
                    /\ paragraphs'[j].PageNumber = page_num
                    /\ paragraphs'[j].Paragraph = Para(chunks[i])

\* C3 as stated: the step that sets the start flag emits the chunks of its
\* page, and the flag is never reset
C3_StartPageEmitted ==
    [][/\ (found_start => found_start')
       /\ (~found_start /\ found_start' => EmitsPage)]_vars

\* C3 amended: the step that sets the start flag emits the chunks of its
\* page unless that page matches an end marker, in which case the scan
\* stops with no record of it; the flag is never reset
C3_StartPageEmittedUnlessEnd ==
    [][/\ (found_start => found_start')
       /\ (~found_start /\ found_start' =>
             IF HasEndMarker(Text(page_num))
             THEN paragraphs' = paragraphs /\ pc' = "done"
             ELSE EmitsPage)]_vars

\* C3 happens: the first triggering page was not the first page, held no
\* end marker, and its chunks are in the output under its number
C3_Witness ==
    /\ found_start
    /\ FirstTriggerPage > 1
    /\ page_num > FirstTriggerPage
    /\ ~HasEndMarker(Text(FirstTriggerPage))
    /\ Len(RecordsOf(FirstTriggerPage)) >= 2

\* C4: no record is a probable table: its text holds neither Table nor
\* Figure, and at most 4 of 10 of its characters are digits
C4_NoTableRecord ==
    \A i \in 1..Len(paragraphs) :
        /\ ~Contains(paragraphs[i].Paragraph, L_Table)
        /\ ~Contains(paragraphs[i].Paragraph, L_Figure)
        /\ 10 * DigitCount(paragraphs[i].Paragraph)
              <= 4 * Len(paragraphs[i].Paragraph)

\* C4 happens: a processed page held a chunk that the inclusion rule
\* accepts and the table test rejects, one of them for its digits alone,
\* and a record with exactly 4 of 10 digits was emitted
C4_Witness ==
    /\ \E p \in 1..Len(doc) :
          /\ RecordsOf(p) # << >>
          /\ \E i \in 1..Len(Chunks(Text(p))) :
                LET para == Para(Chunks(Text(p))[i])
                IN  /\ Included(para)
                    /\ RatioAbove(para)
                    /\ ~Contains(para, L_Table)
          /\ \E i \in 1..Len(Chunks(Text(p))) :
                LET para == Para(Chunks(Text(p))[i])
                IN  Included(para) /\ Contains(para, L_Table)
    /\ \E i \in 1..Len(paragraphs) :
          10 * DigitCount(paragraphs[i].Paragraph)
              = 4 * Len(paragraphs[i].Paragraph)


\* page p was cut into records: it is the first triggering page or a later
\* one, no page from the first triggering page to p matches an end marker,
\* and the scan has passed it
Processed(p) ==
    LET first == FirstTriggerPage
    IN  /\ p < page_num
        /\ p >= first
        /\ \A q \in first..p : ~HasEndMarker(Text(q))

\* t starts with none of the three heading patterns of the inclusion rule
NoHeadingStart(t) ==
    NumberedAt(t) = 0 /\ ~CaptionAt(t, L_Figure) /\ ~CaptionAt(t, L_Table)

\* C5 as stated: on a processed page, every chunk of exactly 55 words, with
\* no digit and no heading pattern at its start, is a record of the output
C5_PlainChunkIncluded ==
    \A p \in 1..Len(doc) : Processed(p) =>
        LET chunks == Chunks(Text(p))
        IN  \A i \in 1..Len(chunks) :
            LET chunk == chunks[i]
            IN  (/\ WordCount(chunk) = 55
                 /\ DigitCount(chunk) = 0
                 /\ NoHeadingStart(chunk)) =>
                   \E j \in 1..Len(paragraphs) :
                      /\ paragraphs[j].PageNumber = p
                      /\ paragraphs[j].Paragraph = Para(chunk)

\* C5 amended: on a processed page, every chunk whose trimmed, printable
\* text has exactly 55 words, no digit, no heading pattern at its start and
\* neither Table nor Figure in it, is a record of the output
C5_PlainCleanChunkIncluded ==
    \A p \in 1..Len(doc) : Processed(p) =>
        LET chunks == Chunks(Text(p))
        IN  \A i \in 1..Len(chunks) :
            LET para == Para(chunks[i])
            IN  (/\ WordCount(para) = 55
                 /\ DigitCount(para) = 0
                 /\ NoHeadingStart(para)
                 /\ ~Contains(para, L_Table)
                 /\ ~Contains(para, L_Figure)) =>
                   \E j \in 1..Len(paragraphs) :
                      /\ paragraphs[j].PageNumber = p
                      /\ paragraphs[j].Paragraph = para

\* C5 happens: a processed page holds a chunk of 55 plain words, which is
\* in the output, beside chunks of 55 words that are not
C5_Witness ==
    \E p \in 1..Len(doc) :
        /\ Processed(p)
        /\ \E i \in 1..Len(Chunks(Text(p))) :
              LET para == Para(Chunks(Text(p))[i])
              IN  /\ WordCount(para) = 55
                  /\ DigitCount(para) = 0
                  /\ ~Contains(para, L_Table)
                  /\ \E j \in 1..Len(paragraphs) :
                        /\ paragraphs[j].PageNumber = p
                        /\ paragraphs[j].Paragraph = para
        /\ \E i \in 1..Len(Chunks(Text(p))) :
              /\ WordCount(Chunks(Text(p))[i]) = 55
              /\ ~Kept(Para(Chunks(Text(p))[i]))

\* the document of C6: three pages, no start trigger on the first, the
\* heading 1. Introduction and a paragraph of 50 words on the second (sep
\* between them), References as the first line of the third
C6_Document(sep) ==
    /\ Len(doc) = 3
    /\ ~StartTrigger(Text(1))
    /\ Text(2) = T_Introduction1 \o sep \o Words(50)
    /\ SubSeq(Text(3), 1, LineEnd(Text(3), 1) - 1) = T_References

\* C6 as stated: that document yields exactly one record, of page 2
C6_OneRecord ==
    (pc = "done" /\ (C6_Document(NL) \/ C6_Document(Blank))) =>
        Len(paragraphs) = 1 /\ paragraphs[1].PageNumber = 2

\* C6 amended: that document yields records of page 2 only: one record,
\* the heading joined to the paragraph, when the paragraph starts on the
\* line after the heading; two records, the heading and then the
\* paragraph, when a blank line stands between them
C6_RecordsOfPageTwo ==
    /\ (pc = "done" /\ C6_Document(NL)) =>
          paragraphs =
             <<Record(name, 2, T_Introduction1 \o <<" ">> \o Words(50))>>
    /\ (pc = "done" /\ C6_Document(Blank)) =>
          paragraphs =
             <<Record(name, 2, T_Introduction1), Record(name, 2, Words(50))>>

\* C6 happens: the document with the blank line was scanned to its end
C6_Witness == pc = "done" /\ C6_Document(Blank) /\ Len(paragraphs) = 2


HeadingShape(line, n) ==
    LET t == Strip(line)
    IN  \E i \in 1..Len(t) : \E k \in (i + 2)..Len(t) :
            /\ \A q \in 1..i : IsDigit(t[q])
            /\ \E j \in {i, i + 1} :
                  /\ j < k - 1
                  /\ j = i + 1 => t[j] \in {".", ")"}
                  /\ \A q \in (j + 1)..(k - 1) : IsSpace(t[q])
            /\ IsUpper(t[k])
            /\ Len(t) - k >= n

\* the page under the scan holds a start marker, or a line that is a
\* heading with n more characters or more after its capital letter
StartsWith(n) ==
    \/ HasStartMarker(Text(page_num))
    \/ \E ln \in splitlines(Text(page_num)) : HeadingShape(ln, n)

\* C18 as stated: the scan of a document that has not started starts at a
\* page exactly when the page holds a start marker or a heading line whose
\* capital letter is followed by 4 more characters or more
C18_HeadingNeedsFour ==
    [][(pc = "scan" /\ ~found_start /\ page_num <= Len(doc)) =>
          (found_start' <=> StartsWith(4))]_vars

\* C18 amended: the same with 3 more characters or more, counted on the
\* line without the whitespace at its ends
C18_HeadingNeedsThree ==
    [][(pc = "scan" /\ ~found_start /\ page_num <= Len(doc)) =>
          (found_start' <=> StartsWith(3))]_vars

\* C18 happens: the first page has a heading line with 2 more characters
\* and did not start the document; the second has one with 3 and no more,
\* and no start marker, started it and is in the output
C18_Witness ==
    /\ found_start
    /\ page_num > 2
    /\ FirstTriggerPage = 2
    /\ \E ln \in splitlines(Text(1)) : HeadingShape(ln, 2)
    /\ ~HasStartMarker(Text(2))
    /\ \E ln \in splitlines(Text(2)) : HeadingShape(ln, 3)
    /\ \A ln \in splitlines(Text(2)) : ~HeadingShape(ln, 4)
    /\ RecordsOf(2) # << >>

\* for each page, whether its text matches an end marker
EndsOn == [page \in Pages \cup HeadPages |-> HasEndMarker(get_text(page))]

\* the first page at or after the first triggering page that matches an end
\* marker (Len(doc) + 1: none)
FirstEndPage ==
    LET ends == {p \in FirstTriggerPage..Len(doc) : EndsOn[doc[p]]}
    IN  IF ends = {}
        THEN Len(doc) + 1
        ELSE CHOOSE p \in ends : \A q \in ends : p <= q

\* C19: the page numbers of the records never decrease along the output
\* and lie between the first triggering page s and the first end page e at
\* or after s, e excluded; when s matches an end marker there is no record;
\* the scan ends at e, whatever end marker stands before s
C19_PagesInRange ==
    LET s == FirstTriggerPage
        e == FirstEndPage
    IN  /\ \A i \in 1..Len(paragraphs) :
              /\ s <= paragraphs[i].PageNumber
              /\ paragraphs[i].PageNumber < e
        /\ \A i \in 1..(Len(paragraphs) - 1) :
              paragraphs[i].PageNumber <= paragraphs[i + 1].PageNumber
        /\ s = e => paragraphs = << >>
        /\ pc = "done" => page_num = e

\* C19 happens: an end marker stands on a page before the first triggering
\* page, the scan went on to the end page after it, and two records or
\* more came out
C19_Witness ==
    /\ pc = "done"
    /\ \E q \in 1..(FirstTriggerPage - 1) : EndsOn[doc[q]]
    /\ FirstEndPage <= Len(doc)
    /\ Len(paragraphs) >= 2

\* t holds a newline
HasNewline(t) == \E k \in 1..Len(t) : t[k] = "\n"

\* C20: no chunk of a processed page, and no para made of it, holds a
\* newline; the count of numeric lines of a para stays below 2, so the
\* table test rejects it exactly for Table, Figure or its digit ratio; no
\* record holds a newline
C20_NoNewlineInChunks ==
    /\ \A i \in 1..Len(paragraphs) : ~HasNewline(paragraphs[i].Paragraph)
    /\ \A p \in 1..Len(doc) : Processed(p) =>
          LET chunks == Chunks(Text(p))
          IN  \A i \in 1..Len(chunks) :
                 LET para == Para(chunks[i])
                 IN  /\ ~HasNewline(chunks[i])
                     /\ ~HasNewline(para)
                     /\ numeric_lines(para) < NumericLines
                     /\ is_probable_table(para) <=>
                           \/ Contains(para, L_Table)
                           \/ Contains(para, L_Figure)
                           \/ RatioAbove(para)

\* C20 happens: a processed page holds a paragraph of two lines with more
\* than 3 numbers each, which the count of numeric lines would reject as
\* it stands on the page; joined into one line it is a record of the output
C20_Witness ==
    \E p \in 1..Len(doc) :
        /\ Processed(p)
        /\ \E i \in 1..Len(Chunks(Text(p))) :
              /\ numeric_lines(Strip(SplitParagraphs(Text(p))[i]))
                    >= NumericLines
              /\ Kept(Para(Chunks(Text(p))[i]))
              /\ \E j \in 1..Len(paragraphs) :
                    /\ paragraphs[j].PageNumber = p
                    /\ paragraphs[j].Paragraph = Para(Chunks(Text(p))[i])

---------------------------------------------------------------------------
(* Properties of the Classification Pipeline *)

\* row k has been processed: its fields were written by the parse or by
\* the handler of the parse failure
Done(k) == k < idx \/ (k = idx /\ pc = "sleep")

\* the processing of row k has not begun to write
NotBegun(k) == k > idx \/ (k = idx /\ pc \in {"loop", "call", "parse"})

\* the service call made for row k
CallOf(k) == calls[CHOOSE j \in 1..Len(calls) : calls[j].row = k]

\* the first position at or after from at which sep stands in s, 0 when
\* there is none
FindFrom(s, sep, from) ==
    IF \E i \in from..Len(s) : MatchAt(s, i, sep, FALSE)
    THEN CHOOSE i \in from..Len(s) :
            /\ MatchAt(s, i, sep, FALSE)
            /\ \A j \in from..(i - 1) : ~MatchAt(s, j, sep, FALSE)
    ELSE 0

\* where the three labels stand in r, each after the one before it (0: the
\* label is missing there)
MainThemeAt(r) == IF r = NoneValue THEN 0 ELSE FindFrom(r, L_MainTheme, 1)

SubThemesAt(r) ==
    IF MainThemeAt(r) = 0 THEN 0
    ELSE FindFrom(r, L_SubThemes, MainThemeAt(r) + Len(L_MainTheme))

SummaryAt(r) ==
    IF SubThemesAt(r) = 0 THEN 0
    ELSE FindFrom(r, L_Summary, SubThemesAt(r) + Len(L_SubThemes))

\* r holds the three labels in their order
LabelsInOrder(r) == SummaryAt(r) > 0

\* r lacks one of the three labels
LabelMissing(r) ==
    IF r = NoneValue THEN TRUE
    ELSE \E lit \in {L_MainTheme, L_SubThemes, L_Summary} : ~Contains(r, lit)

\* the three values C7 names, read off r by the places of its labels
BetweenFirstTwo(r) ==
    SubSeq(r, MainThemeAt(r) + Len(L_MainTheme), SubThemesAt(r) - 1)

BetweenLastTwo(r) ==
    SubSeq(r, SubThemesAt(r) + Len(L_SubThemes), SummaryAt(r) - 1)

AfterLast(r) == SubSeq(r, SummaryAt(r) + Len(L_Summary), Len(r))

ListOf(t) ==
    LET parts == Split(StripChars(Strip(t), {"[", "]"}), <<",">>)
    IN  Join(<<",", " ">>, [k \in 1..Len(parts) |-> Strip(parts[k])])

StoredAsC7(k, r) ==
    /\ df[k].MainTheme = safe_theme_name(Strip(BetweenFirstTwo(r)))
    /\ df[k].SubThemes = ListOf(BetweenLastTwo(r))
    /\ df[k].ResearchSummary = Strip(AfterLast(r))

\* C7: for every reply that holds the three labels in their order, the row
\* stores the sanitized text between the first two labels, the listed text
\* between the last two, and the trimmed remainder after the last
C7_WellFormedReplyStored ==
    \A k \in 1..Len(df) :
        (Done(k) /\ CallOf(k).outcome = "reply" /\ LabelsInOrder(CallOf(k).res))
            => StoredAsC7(k, CallOf(k).res)

\* C8: for every reply that lacks one of the three labels, the processed
\* row has Main Theme PARSE_ERROR and Research Summary the reply as it came
C8_MalformedReplyMarked ==
    \A k \in 1..Len(df) :
        (Done(k) /\ LabelMissing(CallOf(k).res)) =>
            /\ df[k].MainTheme = PARSE_ERROR
            /\ df[k].ResearchSummary = CallOf(k).res

\* C8 happens: the reply of a processed row held the first two labels and
\* not the third, so two fields had been written when the [1] raised
C8_Witness ==
    \E k \in 1..Len(df) :
        /\ Done(k)
        /\ CallOf(k).outcome = "reply"
        /\ CallOf(k).res # NoneValue
        /\ Contains(CallOf(k).res, L_MainTheme)
        /\ Contains(CallOf(k).res, L_SubThemes)
        /\ ~Contains(CallOf(k).res, L_Summary)
        /\ df[k].MainTheme = PARSE_ERROR
        /\ df[k].ResearchSummary = CallOf(k).res

\* C9: whenever the call of a row raised, the string put in its place
\* fails the parse and the processed row has Main Theme PARSE_ERROR (the
\* loop goes on to the next row from every processed row: Sleep)
C9_FailedCallMarked ==
    \A k \in 1..Len(df) :
        (Done(k) /\ CallOf(k).outcome = "raised") =>
            df[k].MainTheme = PARSE_ERROR

\* v is set: neither the empty string nor None
IsSet(v) == v # << >> /\ v # NoneValue

\* C10: the three fields of a row are empty until the row is processed, and
\* all three are set once it has been processed
C10_AllOrNothing ==
    pc # "start" =>
        \A k \in 1..Len(df) :
            /\ NotBegun(k) =>
                  /\ df[k].MainTheme = << >>
                  /\ df[k].SubThemes = << >>
                  /\ df[k].ResearchSummary = << >>
            /\ Done(k) =>
                  /\ IsSet(df[k].MainTheme)
                  /\ IsSet(df[k].SubThemes)
                  /\ IsSet(df[k].ResearchSummary)

\* C11 as stated: the Main Theme of every processed row is one of the 6
\* names of the taxonomy or the sentinel
C11_MainThemeInTaxonomy ==
    \A k \in 1..Len(df) :
        Done(k) => df[k].MainTheme \in main_themes \cup {PARSE_ERROR}

\* t with an underscore for each of its spaces
Underscored(t) == [i \in 1..Len(t) |-> IF t[i] = " " THEN "_" ELSE t[i]]

\* t is what the sanitizer lets through: word characters, hyphens and
\* whitespace other than the space, with no whitespace at either end
IsSanitized(t) ==
    /\ \A i \in 1..Len(t) :
          IsWordChar(t[i]) \/ t[i] = "-" \/ (IsSpace(t[i]) /\ t[i] # " ")
    /\ t # << >> => ~IsSpace(t[1]) /\ ~IsSpace(t[Len(t)])

\* the reply r names theme between its first two labels, and nothing else
Names(r, theme) == LabelsInOrder(r) /\ Strip(BetweenFirstTwo(r)) = theme

\* C11 amended: the Main Theme of every processed row is the sentinel or a
\* sanitized string taken from the reply, which is not held against the
\* taxonomy; when the reply names a theme of the taxonomy between its first
\* two labels, it is that name with an underscore for each space
C11_MainThemeSanitized ==
    \A k \in 1..Len(df) : Done(k) =>
        /\ df[k].MainTheme = PARSE_ERROR \/ IsSanitized(df[k].MainTheme)
        /\ \A theme \in main_themes :
              Names(CallOf(k).res, theme) => df[k].MainTheme = Underscored(theme)

\* C11 happens: one processed row stores Price_Support for a reply that
\* names Price Support, another a Main Theme that is neither the sentinel
\* nor a name of the taxonomy in either spelling
C11_Witness ==
    \E k, j \in 1..Len(df) :
        /\ Done(k) /\ Done(j)
        /\ \E theme \in main_themes :
              /\ Names(CallOf(k).res, theme)
              /\ Underscored(theme) # theme
              /\ df[k].MainTheme = Underscored(theme)
        /\ df[j].MainTheme # PARSE_ERROR
        /\ \A theme \in main_themes :
              df[j].MainTheme \notin {theme, Underscored(theme)}

\* row k of the frame is the record the call was given at row k
SameRecord(k) ==
    /\ df[k].DocumentName = BatchRow(k).DocumentName
    /\ df[k].PageNumber = BatchRow(k).PageNumber
    /\ df[k].Paragraph = BatchRow(k).Paragraph

\* C13: the frame classify_paragraphs returns holds the records it was
\* given, in their order and unchanged, each with its three fields set
C13_NoRecordLost ==
    pc = "done" =>
        \A k \in 1..Len(df) :
            /\ SameRecord(k)
            /\ IsSet(df[k].MainTheme)
            /\ IsSet(df[k].SubThemes)
            /\ IsSet(df[k].ResearchSummary)

\* the positions of the events of the kinds given
EventsOf(kinds) == {p \in 1..Len(events) : events[p].kind \in kinds}

Requests == EventsOf({"request"})

\* the calls that came back, with a reply or with an exception
Answers == EventsOf({"reply", "raised"})

Writes == {"write MainTheme", "write SubThemes", "write ResearchSummary"}

\* before position p, the three fields of row k were written and the sleep
\* of row k came after them
WrittenAndSlept(k, p) ==
    \E sl \in 1..(p - 1) :
        /\ events[sl] = [kind |-> "sleep", row |-> k]
        /\ \A w \in Writes :
              \E q \in 1..(sl - 1) : events[q] = [kind |-> w, row |-> k]

\* C15: at most one request is without its answer; the requests go by the
\* rows in their order; the request of a row after the first comes after
\* the three writes and the sleep of the row before; every call that came
\* back is followed by a sleep before the next request or the return
C15_SequentialAndPaced ==
    /\ Cardinality(Requests) - Cardinality(Answers) \in {0, 1}
    /\ \A p \in Requests :
          /\ events[p].row = Cardinality({q \in Requests : q <= p})
          /\ events[p].row > 1 => WrittenAndSlept(events[p].row - 1, p)
    /\ \A a \in Answers :
          ((\E p \in Requests : p > a) \/ pc \in {"loop", "done"}) =>
              \E sl \in (a + 1)..Len(events) :
                 /\ events[sl] = [kind |-> "sleep", row |-> events[a].row]
                 /\ \A p \in Requests : p > a => p > sl

\* C15 happens: the frame of two rows or more was returned, the call of the
\* first row raised, the reply of the second lacked a label, and a sleep
\* followed each
C15_Witness ==
    /\ pc = "done"
    /\ Len(df) >= 2
    /\ calls[1].outcome = "raised"
    /\ calls[2].outcome = "reply"
    /\ LabelMissing(calls[2].res)
    /\ Cardinality(EventsOf({"sleep"})) = Len(df)

\* the requests issued for row k so far
RequestsOf(k) ==
    Cardinality({p \in Requests : events[p].row = k})

\* the writes made to the fields of row k so far
WritesOf(k) ==
    Cardinality({p \in EventsOf(Writes) : events[p].row = k})

\* for each string the call may leave in res, whether its parse raises
ParseFailed ==
    [r \in Replies \cup {ErrorPrefix \o e : e \in FailureTexts} |->
        ParseFails(r)]

\* where row k stands in Pending -> Requested -> {Parsed | ParseFailed}
State(k) ==
    IF RequestsOf(k) = 0 THEN "Pending"
    ELSE IF ~Done(k) THEN "Requested"
    ELSE IF ParseFailed[CallOf(k).res] THEN "ParseFailed"
    ELSE "Parsed"

\* the moves of a row
Moves ==
    {<<"Pending", "Requested">>, <<"Requested", "Parsed">>,
     <<"Requested", "ParseFailed">>}

\* C16: a row moves from Pending to Requested and from there to Parsed or
\* ParseFailed, by no other move; it is requested once, whether its call
\* or its parse failed; once Parsed or ParseFailed it is neither requested
\* nor written again
C16_OneRequestNoRetry ==
    [][\A k \in 1..Len(df) :
          /\ State(k)' = State(k) \/ <<State(k), State(k)'>> \in Moves
          /\ RequestsOf(k)' <= 1
          /\ State(k) \in {"Parsed", "ParseFailed"} =>
                /\ RequestsOf(k)' = RequestsOf(k)
                /\ WritesOf(k)' = WritesOf(k)
                /\ df'[k] = df[k]]_vars

\* C16 happens: the frame was returned with one row Parsed and one row
\* ParseFailed after its call raised, each requested once
C16_Witness ==
    /\ pc = "done"
    /\ \E k, j \in 1..Len(df) :
          /\ State(k) = "Parsed"
          /\ State(j) = "ParseFailed"
          /\ CallOf(j).outcome = "raised"
          /\ RequestsOf(k) = 1
          /\ RequestsOf(j) = 1

---------------------------------------------------------------------------
(* Properties of the script runs *)

\* the stored frame holds a row for the record rec of the Segmenter
Stored(rec) ==
    /\ "combined_df" \in DOMAIN session_state
    /\ \E j \in 1..Len(session_state.combined_df) :
          /\ session_state.combined_df[j].DocumentName = rec.DocumentName
          /\ session_state.combined_df[j].PageNumber = rec.PageNumber
          /\ session_state.combined_df[j].Paragraph = rec.Paragraph

\* C12: once a script run with the button pressed is over, the stored
\* frame holds every record the Segmenter yields for every readable file of
\* the upload, whatever other file of the upload could not be read
C12_FailureAbortsDocumentOnly ==
    pc = "idle" =>
        \A i \in 1..Len(uploaded_files) :
            Readable(uploaded_files[i]) =>
                LET found == extract_paragraphs_from_pdf(uploaded_files[i])
                IN  \A j \in 1..Len(found) : Stored(found[j])

\* C17: once a script run is over whose latest pressed run went through all
\* its files, the frame behind the download button, when there is one,
\* holds the rows that run produced and no other
C17_OnlyLatestRun ==
    (pc = "idle" /\ file_no > Len(uploaded_files)) =>
        \A i \in 1..Len(offered) : offered[i] = Concat(all_results)

===========================================================================
